---- MODULE Spec2Model ----
(***************************************************************************)
(* Surface morphing of mne/morph.py: compute_source_morph and the morph    *)
(* matrix assembler (_compute_morph_matrix), the diffusion smoother        *)
(* (_morph_buffer, _morph_mult), the sparse nearest-correspondence builder,*)
(* SourceMorph.__call__ / _apply_morph_data, save and read_source_morph.   *)
(*                                                                         *)
(* Vertices are numbered from 0 as in the source; sequences and matrix     *)
(* rows are numbered from 1, so vertex v is row v + 1 of a per-vertex      *)
(* matrix.  Matrix entries are exact rationals <<numerator, denominator>>. *)
(***************************************************************************)
EXTENDS Integers, Sequences, FiniteSets, TLC

(***************************************************************************)
(* Exact rational arithmetic (numpy float64 on these small dyadic/ternary  *)
(* values is modelled by exact fractions in lowest terms).                 *)
(***************************************************************************)
RECURSIVE GCD(_, _)
GCD(a, b) == IF b = 0 THEN a ELSE GCD(b, a % b)

Abs(x) == IF x < 0 THEN -x ELSE x

Rat(n, d) ==
    LET g == GCD(Abs(n), d) IN <<n \div g, d \div g>>

RZero == <<0, 1>>

ROne == <<1, 1>>

RInt(n) == <<n, 1>>

RAdd(x, y) ==
    LET g == GCD(x[2], y[2])
    IN Rat(x[1] * (y[2] \div g) + y[1] * (x[2] \div g), (x[2] \div g) * y[2])

RMul(x, y) == Rat(x[1] * y[1], x[2] * y[2])

RDivInt(x, n) == Rat(x[1], x[2] * n)

RECURSIVE RSum(_)
RSum(s) == IF Len(s) = 0 THEN RZero ELSE RAdd(Head(s), RSum(Tail(s)))

RECURSIVE ISum(_)
ISum(s) == IF Len(s) = 0 THEN 0 ELSE Head(s) + ISum(Tail(s))

(***************************************************************************)
(* Matrices: [nc |-> number of columns, rows |-> sequence of rows].        *)
(***************************************************************************)
\* (the comparison makes TLC evaluate the entries once, here, instead of at
\* every later use)
Mat(nr, nc, F) ==
    LET m == [nc |-> nc, rows |-> [i \in 1..nr |-> [j \in 1..nc |-> F[i, j]]]]
    IN IF m = m THEN m ELSE m

NRows(M) == Len(M.rows)

Eye(n) == Mat(n, n, [i \in 1..n, j \in 1..n |-> IF i = j THEN ROne ELSE RZero])

\* A * B, defined when A.nc = NRows(B)
MatMul(A, B) ==
    Mat(NRows(A), B.nc,
        [i \in 1..NRows(A), j \in 1..B.nc |-> RSum([l \in 1..A.nc |-> RMul(A.rows[i][l], B.rows[l][j])])])

\* M[idx, :] for a sequence idx of 0-based row numbers
TakeRows(M, idx) ==
    [nc |-> M.nc, rows |-> [r \in 1..Len(idx) |-> M.rows[idx[r] + 1]]]

\* M[:, idx] for a sequence idx of 0-based column numbers
TakeCols(M, idx) ==
    [nc |-> Len(idx),
     rows |-> [i \in 1..NRows(M) |-> [c \in 1..Len(idx) |-> M.rows[i][idx[c] + 1]]]]

\* scipy.sparse.block_diag of a sequence of matrices
RECURSIVE SumNc(_)
SumNc(ms) == IF Len(ms) = 0 THEN 0 ELSE Head(ms).nc + SumNc(Tail(ms))

RECURSIVE SumNr(_)
SumNr(ms) == IF Len(ms) = 0 THEN 0 ELSE NRows(Head(ms)) + SumNr(Tail(ms))

BlockDiag(ms) ==
    LET roff(b) == SumNr(SubSeq(ms, 1, b - 1))
        coff(b) == SumNc(SubSeq(ms, 1, b - 1))
        blockOfRow(i) == CHOOSE b \in 1..Len(ms) :
                             i > roff(b) /\ i <= roff(b) + NRows(ms[b])
    IN Mat(SumNr(ms), SumNc(ms),
           [i \in 1..SumNr(ms), j \in 1..SumNc(ms) |->
               LET b == blockOfRow(i) IN
               IF j > coff(b) /\ j <= coff(b) + ms[b].nc
               THEN ms[b].rows[i - roff(b)][j - coff(b)]
               ELSE RZero])

\* np.arange(n)
Arange(n) == [i \in 1..n |-> i - 1]

\* the set of entries of a sequence
Range(s) == {s[i] : i \in 1..Len(s)}

\* np.where(v)[0] for a per-vertex integer vector v: the 0-based positions
\* of its non-zero entries, increasing
RECURSIVE WhereFrom(_, _)
WhereFrom(v, i) ==
    IF i > Len(v) THEN <<>>
    ELSE IF v[i] # 0 THEN <<i - 1>> \o WhereFrom(v, i + 1)
    ELSE WhereFrom(v, i + 1)

Where(v) == WhereFrom(v, 1)

(***************************************************************************)
(* Optional values: Python None is <<>>, a present value x is <<x>>.       *)
(* Subject names are strings; an unknown subject (None) is NoSubject.      *)
(***************************************************************************)
None == <<>>

Some(x) == <<x>>

NoSubject == "None"

(***************************************************************************)
(* The subjects directory: per subject and hemisphere (1 = lh, 2 = rh) the *)
(* sphere.reg surface (number of points, triangles), as read_surface       *)
(* returns it, and the morph maps read_morph_map returns.                  *)
(*   sA lh: vertex 0 in no triangle, one triangle 1-2-3                    *)
(*   sA rh: one triangle 0-1-2                                             *)
(*   sB lh: two triangles sharing the edge 1-2                             *)
(*   sB rh: a closed tetrahedron                                           *)
(***************************************************************************)
Subjects == {"sA", "sB"}

Hemis == {1, 2}

SurfacePoints(subject, hemi) ==
    CASE subject = "sA" /\ hemi = 1 -> 4
      [] subject = "sA" /\ hemi = 2 -> 3
      [] subject = "sB" /\ hemi = 1 -> 4
      [] subject = "sB" /\ hemi = 2 -> 4

SurfaceTris(subject, hemi) ==
    CASE subject = "sA" /\ hemi = 1 -> {<<1, 2, 3>>}
      [] subject = "sA" /\ hemi = 2 -> {<<0, 1, 2>>}
      [] subject = "sB" /\ hemi = 1 -> {<<0, 1, 2>>, <<2, 1, 3>>}
      [] subject = "sB" /\ hemi = 2 ->
             {<<0, 1, 2>>, <<0, 3, 1>>, <<1, 3, 2>>, <<0, 2, 3>>}

\* A morph map between two different meshes: row r (a destination vertex)
\* is a convex combination of source vertices, 3/4 on one and 1/4 on the
\* next, so every row sums to 1.
Barycentric(nr, nc) ==
    Mat(nr, nc,
        [i \in 1..nr, j \in 1..nc |->
            IF nc = 1 THEN ROne
            ELSE IF j - 1 = i % nc THEN Rat(3, 4)
            ELSE IF j - 1 = (i - 1) % nc THEN Rat(1, 4)
            ELSE RZero])

\* read_morph_map(subject_from, subject_to, subjects_dir, xhemi): the pair
\* (maps[0], maps[1]); maps[h] has one column per vertex of hemisphere h of
\* subject_from and one row per vertex of the hemisphere of subject_to it
\* maps onto (the opposite one when xhemi).  The same subject maps onto
\* itself by the identity.
MorphMapExists(subject_from, subject_to, xhemi) ==
    xhemi => subject_from = subject_to

ReadMorphMap(subject_from, subject_to, xhemi) ==
    [h \in Hemis |->
        LET hto == IF xhemi THEN 3 - h ELSE h
            nr == SurfacePoints(subject_to, hto)
            nc == SurfacePoints(subject_from, h)
        IN IF subject_from = subject_to /\ ~xhemi THEN Eye(nr)
           ELSE Barycentric(nr, nc)]

(***************************************************************************)
(* Mesh graph: mesh_edges(tris) counts, for every pair of vertices, the    *)
(* triangle sides joining them (in either direction).                      *)
(***************************************************************************)
TriSides(t) == {<<t[1], t[2]>>, <<t[2], t[3]>>, <<t[3], t[1]>>}

MeshEdges(tris, n) ==
    LET cnt(a, b) == Cardinality({t \in tris : <<a, b>> \in TriSides(t)})
    IN [nc |-> n,
        rows |-> [i \in 1..n |-> [j \in 1..n |->
                     cnt(i - 1, j - 1) + cnt(j - 1, i - 1)]]]

\* the edges of the mesh without the identity: no vertex joined to itself
EdgeGraphNoSelfLoops(subject, hemi) ==
    LET n == SurfacePoints(subject, hemi)
        m == MeshEdges(SurfaceTris(subject, hemi), n)
    IN [nc |-> n,
        rows |-> [i \in 1..n |-> [j \in 1..n |->
                     IF m.rows[i][j] = 2 THEN 1 ELSE m.rows[i][j]]]]

\* _compute_morph_matrix, lines 908-911: weights 2 collapse to 1 and the
\* identity (a self-loop on every vertex) is added
EdgeGraph(subject, hemi) ==
    LET n == SurfacePoints(subject, hemi)
        m == MeshEdges(SurfaceTris(subject, hemi), n)
    IN [nc |-> n,
        rows |-> [i \in 1..n |-> [j \in 1..n |->
                     (IF m.rows[i][j] = 2 THEN 1 ELSE m.rows[i][j])
                     + (IF i = j THEN 1 ELSE 0)]]]

(***************************************************************************)
(* The diffusion smoother, _morph_buffer.                                  *)
(***************************************************************************)
\* max nb of smoothing iterations (minus one)
n_iter == 99

\* the row sums of e over all its columns, whatever idx_use holds
DataSumAllColumns(e, idx_use) ==
    [i \in 1..NRows(e) |-> ISum(e.rows[i])]

\* e * mult, with mult the indicator vector of idx_use
DataSum(e, idx_use) ==
    [i \in 1..NRows(e) |->
        ISum([j \in 1..e.nc |-> IF (j - 1) \in Range(idx_use)
                                THEN e.rows[i][j] ELSE 0])]

\* e * data for the integer matrix e
EdgeMul(e, data) ==
    Mat(NRows(e), data.nc,
        [i \in 1..NRows(e), j \in 1..data.nc |->
            RSum([l \in 1..e.nc |->
                     RMul(RInt(e.rows[i][l]), data.rows[l][j])])])

\* _morph_mult: (e[:, idx_use_data] * data)[idx_use_out]
MorphMult(data, e, idx_use_data, idx_use_out) ==
    LET prod == IF Len(idx_use_data) < e.nc
                THEN EdgeMul(TakeCols(e, idx_use_data), data)
                ELSE EdgeMul(e, data)
    IN IF idx_use_out # None THEN TakeRows(prod, idx_use_out[1]) ELSE prod

\* rows left undivided
DivideRowsSkipped(data, by) == data

\* row r of data divided by by[r]
DivideRows(data, by) ==
    Mat(NRows(data), data.nc, [i \in 1..NRows(data), j \in 1..data.nc |-> RDivInt(data.rows[i][j], by[i])])

\* The state of one _morph_buffer call before its loop (lines 1046-1061):
\* smooth has been decremented, k is the index of the iteration last run.
SmoothBegin(data, idx_use, smooth) ==
    [smooth |-> IF smooth = None THEN None ELSE Some(smooth[1] - 1),
     k |-> -1,
     idx_use |-> idx_use,
     idx_use_data |-> idx_use,
     data_sum |-> <<>>,
     data |-> data,
     done |-> FALSE]

\* a loop without the range(n_iter + 1) ceiling
LoopRunsNoCeiling(sm) == ~sm.done

\* the loop of line 1063 has another iteration to run
LoopRuns(sm) == ~sm.done /\ sm.k < n_iter

\* an iteration that, with smooth unset, is the last one only on coverage
\* (without the k == n_iter test of line 1078)
SmoothStepCoverageOnly(sm, e, n_vertices) ==
    LET k == sm.k + 1
        data_sum == DataSum(e, sm.idx_use)
        idx_use == Where(data_sum)
        done == IF sm.smooth = None
                THEN Len(idx_use) >= n_vertices
                ELSE k = sm.smooth[1]
        idx_out == IF done THEN None ELSE Some(idx_use)
        data == MorphMult(sm.data, e, sm.idx_use, idx_out)
    IN [smooth |-> sm.smooth,
        k |-> k,
        idx_use |-> idx_use,
        idx_use_data |-> sm.idx_use,
        data_sum |-> data_sum,
        data |-> IF done THEN data
                 ELSE DivideRows(data, [r \in 1..Len(idx_use) |->
                                           data_sum[idx_use[r] + 1]]),
        done |-> done]

\* an iteration whose standard normalization divides by the degree of the
\* vertex in the whole mesh, not by data_sum
SmoothStepByFullDegree(sm, e, n_vertices) ==
    LET k == sm.k + 1
        data_sum == DataSum(e, sm.idx_use)
        idx_use == Where(data_sum)
        done == IF sm.smooth = None
                THEN k = n_iter \/ Len(idx_use) >= n_vertices
                ELSE k = sm.smooth[1]
        idx_out == IF done THEN None ELSE Some(idx_use)
        data == MorphMult(sm.data, e, sm.idx_use, idx_out)
    IN [smooth |-> sm.smooth,
        k |-> k,
        idx_use |-> idx_use,
        idx_use_data |-> sm.idx_use,
        data_sum |-> data_sum,
        data |-> IF done THEN data
                 ELSE DivideRows(data, [r \in 1..Len(idx_use) |->
                                           ISum(e.rows[idx_use[r] + 1])]),
        done |-> done]

\* One iteration of the loop, lines 1063-1096
SmoothStep(sm, e, n_vertices) ==
    LET k == sm.k + 1
        data_sum == DataSum(e, sm.idx_use)
        idx_use == Where(data_sum)
        done == IF sm.smooth = None
                THEN k = n_iter \/ Len(idx_use) >= n_vertices
                ELSE k = sm.smooth[1]
        idx_out == IF done THEN None ELSE Some(idx_use)
        data == MorphMult(sm.data, e, sm.idx_use, idx_out)
    IN [smooth |-> sm.smooth,
        k |-> k,
        idx_use |-> idx_use,
        idx_use_data |-> sm.idx_use,
        data_sum |-> data_sum,
        data |-> IF done THEN data
                 ELSE DivideRows(data, [r \in 1..Len(idx_use) |->
                                           data_sum[idx_use[r] + 1]]),
        done |-> done]

\* The special normalization for the last iteration on csr data, lines
\* 1099-1101: data_sum.repeat(np.diff(data.indptr)) needs one row of data
\* per entry of data_sum
FinalNormOk(sm) == NRows(sm.data) = Len(sm.data_sum)

\* a call that leaves the last product as it is
FinalNormSkipped(sm) == sm.data

FinalNorm(sm) ==
    DivideRows(sm.data, [i \in 1..Len(sm.data_sum) |->
                            IF sm.data_sum[i] = 0 THEN 1 ELSE sm.data_sum[i]])

\* the condition of the warning of lines 1104-1107
NotAllIncluded(sm, warn) == Len(sm.idx_use) # Len(sm.data_sum) /\ warn

\* maps[nearest, :] * data, line 1111
NearestOk(maps, nearest) == \A i \in 1..Len(nearest) : nearest[i] < NRows(maps)

MapsMulOk(maps, data) == maps.nc = NRows(data)

MapsMul(maps, nearest, data) == MatMul(TakeRows(maps, nearest), data)

\* the whole loop: iterations until one is flagged done or range(n_iter + 1)
\* is exhausted
RECURSIVE SmoothLoop(_, _, _)
SmoothLoop(sm, e, n_vertices) ==
    IF LoopRuns(sm) THEN SmoothLoop(SmoothStep(sm, e, n_vertices), e, n_vertices)
    ELSE sm

\* What follows the loop, lines 1098-1112: [status, data_morphed, warned]
Empty0 == [nc |-> 0, rows |-> <<>>]

SmoothFinish(sm, nearest, maps, warn) ==
    IF ~FinalNormOk(sm)
    THEN [status |-> "ValueError: repeat", data_morphed |-> Empty0, warned |-> FALSE]
    ELSE LET data == FinalNorm(sm)
             warned == NotAllIncluded(sm, warn)
         IN IF ~NearestOk(maps, nearest)
            THEN [status |-> "IndexError", data_morphed |-> Empty0, warned |-> warned]
            ELSE IF ~MapsMulOk(maps, data)
            THEN [status |-> "ValueError: dimension mismatch",
                  data_morphed |-> Empty0, warned |-> warned]
            ELSE [status |-> "ok", data_morphed |-> MapsMul(maps, nearest, data),
                  warned |-> warned]

\* The special normalization on a dense array, lines 1102-1103:
\* data[idx_use, :] /= data_sum[idx_use][:, None] needs a row of data for
\* every index of idx_use
FinalNormDenseOk(sm) == \A i \in 1..Len(sm.idx_use) : sm.idx_use[i] < NRows(sm.data)

FinalNormDense(sm) ==
    Mat(NRows(sm.data), sm.data.nc,
        [i \in 1..NRows(sm.data), j \in 1..sm.data.nc |->
            IF (i - 1) \in Range(sm.idx_use)
            THEN RDivInt(sm.data.rows[i][j], sm.data_sum[i])
            ELSE sm.data.rows[i][j]])

\* lines 1098-1112 for data that is a dense array
SmoothFinishDense(sm, nearest, maps, warn) ==
    IF ~FinalNormDenseOk(sm)
    THEN [status |-> "IndexError", data_morphed |-> Empty0, warned |-> FALSE]
    ELSE LET data == FinalNormDense(sm)
             warned == NotAllIncluded(sm, warn)
         IN IF ~NearestOk(maps, nearest)
            THEN [status |-> "IndexError", data_morphed |-> Empty0, warned |-> warned]
            ELSE IF ~MapsMulOk(maps, data)
            THEN [status |-> "ValueError: dimension mismatch",
                  data_morphed |-> Empty0, warned |-> warned]
            ELSE [status |-> "ok", data_morphed |-> MapsMul(maps, nearest, data),
                  warned |-> warned]

\* a check that lets smooth = 0 through
SmoothRejectedBelowZero(smooth) == smooth # None /\ smooth[1] < 0

\* the check of lines 1047-1050
SmoothRejected(smooth) == smooth # None /\ smooth[1] <= 0

(***************************************************************************)
(* Sorting helpers (np.sort, np.argsort).                                  *)
(***************************************************************************)
RECURSIVE ArgsortOf(_, _)
ArgsortOf(s, left) ==
    IF left = {} THEN <<>>
    ELSE LET m == CHOOSE i \in left :
                      \A j \in left : s[i] < s[j] \/ (s[i] = s[j] /\ i <= j)
         IN <<m - 1>> \o ArgsortOf(s, left \ {m})

\* np.argsort(s): 0-based positions in increasing order of value
Argsort(s) == ArgsortOf(s, 1..Len(s))

\* np.sort(s)
Sort(s) == LET o == Argsort(s) IN [i \in 1..Len(s) |-> s[o[i] + 1]]

\* a check that never finds a repeated vertex
HasRepeatNever(s) == FALSE

\* (np.diff(s) == 0).any()
HasRepeat(s) == \E i \in 1..(Len(s) - 1) : s[i + 1] - s[i] = 0

StrictlyIncreasing(s) == \A i \in 1..(Len(s) - 1) : s[i] < s[i + 1]

RECURSIVE SumLen(_)
SumLen(vs) == IF Len(vs) = 0 THEN 0 ELSE Len(Head(vs)) + SumLen(Tail(vs))

\* list.reverse()
Reverse(s) == [i \in 1..Len(s) |-> s[Len(s) + 1 - i]]

(***************************************************************************)
(* The vertex resolver, grade_to_vertices.  A spacing is                   *)
(* [kind |-> "none" | "grade" | "list", grade, list].                      *)
(***************************************************************************)
SpacingNone == [kind |-> "none", grade |-> 0, list |-> <<>>]

SpacingGrade(g) == [kind |-> "grade", grade |-> g, list |-> <<>>]

SpacingList(l) == [kind |-> "list", grade |-> 0, list |-> l]

\* _compute_nearest(xhs, ico['rr']): for each vertex of the reference mesh
\* of a grade (grade + 1 of them here) the nearest vertex of the sphere
ComputeNearest(subject, hemi, grade) ==
    [i \in 1..(grade + 1) |-> (2 * i) % SurfacePoints(subject, hemi)]

GradeToVertices(subject, grade) ==
    IF grade.kind = "list"
    THEN IF Len(grade.list) # 2
         THEN [status |-> "ValueError: grade as a list", vertices |-> <<>>,
               message |-> <<>>]
         ELSE [status |-> "ok", vertices |-> grade.list, message |-> <<>>]
    ELSE IF grade.kind = "grade"
    THEN LET vertices == [hh \in 1..2 |->
                             Sort(ComputeNearest(subject, hh, grade.grade))]
         IN IF \E hh \in 1..2 : HasRepeat(vertices[hh])
            THEN LET verts == vertices[CHOOSE hh \in 1..2 :
                                  /\ HasRepeat(vertices[hh])
                                  /\ \A l \in 1..(hh - 1) :
                                        ~HasRepeat(vertices[l])]
                 IN [status |-> "ValueError: repeated vertices",
                     vertices |-> <<>>,
                     message |-> <<grade.grade, subject, Len(verts)>>]
            ELSE [status |-> "ok", vertices |-> vertices, message |-> <<>>]
    ELSE [status |-> "ok",
          vertices |-> [hh \in 1..2 |-> Arange(SurfacePoints(subject, hh))],
          message |-> <<>>]

(***************************************************************************)
(* The sparse nearest-correspondence builder.                              *)
(***************************************************************************)
RLess(x, y) == x[1] * y[2] < y[1] * x[2]

\* _sparse_argmax_nnz_row for one row: the column of the first largest
\* stored (non-zero) entry
ArgmaxNnz(row) ==
    LET nz == {j \in 1..Len(row) : row[j] # RZero}
    IN (CHOOSE j \in nz :
            \A l \in nz : RLess(row[l], row[j]) \/ (row[l] = row[j] /\ j <= l))
       - 1

SparseArgmaxNnzRow(M) == [r \in 1..NRows(M) |-> ArgmaxNnz(M.rows[r])]

\* a builder whose column offset cnt stays 0 for the right hemisphere
ComputeSparseMorphNoOffset(vertices_from, subject_from, subject_to) ==
    LET maps == ReadMorphMap(subject_to, subject_from, FALSE)
        vertno(hh) == SparseArgmaxNnzRow(TakeRows(maps[hh], vertices_from[hh]))
        order(hh) == Argsort(vertno(hh))
        cols == order(1) \o order(2)
        n == Len(cols)
    IN [vertices |-> [hh \in 1..2 |->
                         [i \in 1..Len(vertno(hh)) |->
                             vertno(hh)[order(hh)[i] + 1]]],
        morph_mat |-> Mat(n, n, [i \in 1..n, j \in 1..n |->
                                    IF cols[i] = j - 1 THEN ROne ELSE RZero])]

\* _compute_sparse_morph: [vertices, morph_mat]
ComputeSparseMorph(vertices_from, subject_from, subject_to) ==
    LET maps == ReadMorphMap(subject_to, subject_from, FALSE)
        vertno(hh) == SparseArgmaxNnzRow(TakeRows(maps[hh], vertices_from[hh]))
        order(hh) == Argsort(vertno(hh))
        cnt(hh) == IF hh = 1 THEN 0 ELSE Len(vertno(1))
        cols == [i \in 1..Len(order(1)) |-> cnt(1) + order(1)[i]]
                \o [i \in 1..Len(order(2)) |-> cnt(2) + order(2)[i]]
        n == Len(cols)
    IN [vertices |-> [hh \in 1..2 |->
                         [i \in 1..Len(vertno(hh)) |->
                             vertno(hh)[order(hh)[i] + 1]]],
        morph_mat |-> Mat(n, n, [i \in 1..n, j \in 1..n |->
                                    IF cols[i] = j - 1 THEN ROne ELSE RZero])]

\* a check that lets a declared subject_from stand whatever the source says
CheckSubjectFromDeclared(subject_from, src_kind, src_subject) ==
    LET sf == IF subject_from = NoSubject THEN src_subject ELSE subject_from
    IN IF sf = NoSubject
       THEN [status |-> "ValueError: subject_from could not be inferred",
             subject_from |-> NoSubject]
       ELSE [status |-> "ok", subject_from |-> sf]

(***************************************************************************)
(* _check_subject_from                                                     *)
(***************************************************************************)
\* src is the subject of a source estimate ("stc") or a SourceSpaces
\* ("spaces") whose first space carries subject_his_id
CheckSubjectFrom(subject_from, src_kind, src_subject) ==
    IF src_kind = "stc" /\ src_subject = NoSubject
    THEN [status |-> "TypeError", subject_from |-> NoSubject]
    ELSE LET subject_check == src_subject
             sf == IF subject_from = NoSubject THEN subject_check
                   ELSE subject_from
         IN IF subject_from # NoSubject /\ subject_check # NoSubject
               /\ subject_from # subject_check
            THEN [status |-> "ValueError: subject_from does not match",
                  subject_from |-> NoSubject]
            ELSE IF sf = NoSubject
            THEN [status |-> "ValueError: subject_from could not be inferred",
                  subject_from |-> NoSubject]
            ELSE [status |-> "ok", subject_from |-> sf]

(***************************************************************************)
(* SourceMorph                                                             *)
(***************************************************************************)
\* a list of written attributes that lacks src_data
AttributesWithoutSrcData ==
    <<"subject_from", "subject_to", "kind", "niter_affine", "niter_sdr",
      "spacing", "smooth", "xhemi", "morph_mat", "vertices_to",
      "morph_shape", "morph_zooms", "morph_affine", "pre_sdr_affine",
      "sdr_mapping">>

\* used in writing
SOURCE_MORPH_ATTRIBUTES ==
    <<"subject_from", "subject_to", "kind", "niter_affine", "niter_sdr",
      "spacing", "smooth", "xhemi", "morph_mat", "vertices_to",
      "morph_shape", "morph_zooms", "morph_affine", "pre_sdr_affine",
      "sdr_mapping", "src_data">>

\* the parameters of SourceMorph.__init__, in order
InitParameters ==
    <<"subject_from", "subject_to", "kind", "niter_affine", "niter_sdr",
      "spacing", "smooth", "xhemi", "morph_mat", "vertices_to",
      "morph_shape", "morph_zooms", "morph_affine", "pre_sdr_affine",
      "sdr_mapping", "src_data">>

\* SourceMorph.__init__: every parameter is stored under its own name
SourceMorph(subject_from, subject_to, kind, niter_affine, niter_sdr, spacing, smooth, xhemi, morph_mat, vertices_to, morph_shape, morph_zooms, morph_affine, pre_sdr_affine, sdr_mapping, src_data) ==
    [subject_from |-> subject_from, subject_to |-> subject_to, kind |-> kind,
     niter_affine |-> niter_affine, niter_sdr |-> niter_sdr,
     spacing |-> spacing, smooth |-> smooth, xhemi |-> xhemi,
     morph_mat |-> morph_mat, vertices_to |-> vertices_to,
     morph_shape |-> morph_shape, morph_zooms |-> morph_zooms,
     morph_affine |-> morph_affine, pre_sdr_affine |-> pre_sdr_affine,
     sdr_mapping |-> sdr_mapping, src_data |-> src_data]

\* the defaults of compute_source_morph
NiterAffine == <<100, 100, 10>>

NiterSdr == <<5, 5, 3>>

(***************************************************************************)
(* State.                                                                  *)
(*   pc          where the one compute_source_morph call of a behaviour    *)
(*               stands: "idle", "hemi" (in the hemisphere loop of         *)
(*               _compute_morph_matrix), "built", "failed"                 *)
(*   loc         the locals of compute_source_morph after its line 134     *)
(*   vertices_to the destination vertex list (the list object that         *)
(*               grade_to_vertices returned and the assembler reverses)    *)
(*   h           the position in hemi_indexes (1, 2; 3 after the loop)     *)
(*   morpher     the blocks appended so far                                *)
(*   sm          the smoothing state of the last _morph_buffer call        *)
(*   warnings    the warnings emitted, as <<missing, total>> pairs         *)
(*   morph       the SourceMorph, None until built                         *)
(*   outcome     how the last call of compute_source_morph or of the morph *)
(*               ended: "" (none yet), "ok" or the error                   *)
(*   stc_from    the estimate last passed to the morph, stc_to the         *)
(*               estimate that call returned (None if it raised)           *)
(*   file        the record SourceMorph.save wrote, None before            *)
(*   loaded      the SourceMorph read_source_morph returned, None before   *)
(*   mb          a call of _morph_buffer on its own: its arguments and its *)
(*               position ("idle", "loop", "returned", "failed")           *)
(*   data_morphed what that call returned, None before                     *)
(***************************************************************************)
VARIABLES pc, loc, vertices_to, h, morpher, sm, warnings, morph, outcome,
          stc_from, stc_to, file, loaded, mb, data_morphed

vars == <<pc, loc, vertices_to, h, morpher, sm, warnings, morph, outcome,
          stc_from, stc_to, file, loaded, mb, data_morphed>>

bufVars == <<mb, data_morphed>>

buildVars == <<loc, vertices_to, h, morpher, sm, warnings>>

useVars == <<stc_from, stc_to, file, loaded>>

NoSmooth ==
    [smooth |-> None, k |-> -1, idx_use |-> <<>>, idx_use_data |-> <<>>,
     data_sum |-> <<>>, data |-> Empty0, done |-> FALSE]

NoCall ==
    [pos |-> "idle", subject |-> NoSubject, hemi |-> 1, smooth |-> None,
     nearest |-> <<>>, subject_to |-> NoSubject, warn |-> FALSE,
     use_sparse |-> TRUE]

NoLoc ==
    [subject_from |-> NoSubject, subject_to |-> NoSubject,
     src_data |-> <<>>, spacing |-> SpacingNone, smooth |-> None,
     warn |-> FALSE, xhemi |-> FALSE, sparse |-> FALSE]

(***************************************************************************)
(* The inputs compute_source_morph is called with.                         *)
(***************************************************************************)
MaxSmooth == 1

SmoothArgs == {None} \cup {Some(n) : n \in 0..MaxSmooth}

\* source vertex lists of a hemisphere with n vertices
SrcLists(n) == {<<>>, <<0>>, Arange(n)}

SpacingArgs ==
    {SpacingNone, SpacingGrade(1), SpacingGrade(2),
     SpacingList(<<<<0, 1>>, <<>>>>), SpacingList(<<<<>>, <<0, 2>>>>),
     SpacingList(<<<<1, 3>>, <<0>>>>), SpacingList(<<<<0>>>>)}

Init ==
    /\ pc = "idle"
    /\ loc = NoLoc
    /\ vertices_to = <<>>
    /\ h = 1
    /\ morpher = <<>>
    /\ sm = NoSmooth
    /\ warnings = <<>>
    /\ morph = None
    /\ outcome = ""
    /\ stc_from = None
    /\ stc_to = None
    /\ file = None
    /\ loaded = None
    /\ mb = NoCall
    /\ data_morphed = None

Fail(status) ==
    /\ pc' = "failed"
    /\ outcome' = status
    /\ morph' = None
    /\ UNCHANGED useVars /\ UNCHANGED bufVars

\* a check that refuses only a list of vertices, not an integer grade
SparseSpacingRefusedList(spacing) == spacing.kind = "list"

\* lines 188-190: sparse=True wants spacing=None
SparseSpacingRefused(spacing) == spacing # SpacingNone

(***************************************************************************)
(* compute_source_morph, lines 123-202, up to the hemisphere loop of       *)
(* _compute_morph_matrix (lines 890-903); the sparse branch runs whole.    *)
(***************************************************************************)
ComputeSourceMorph(subject_from, src_kind, src_subject, src_vertices, subject_to, spacing, smooth, warn, xhemi, sparse) ==
    /\ pc = "idle"
    /\ LET chk == CheckSubjectFrom(subject_from, src_kind, src_subject)
           l == [subject_from |-> chk.subject_from, subject_to |-> subject_to,
                 src_data |-> src_vertices, spacing |-> spacing,
                 smooth |-> smooth, warn |-> IF sparse THEN FALSE ELSE warn,
                 xhemi |-> xhemi, sparse |-> sparse]
       IN IF chk.status # "ok"
          THEN /\ Fail(chk.status)
               /\ UNCHANGED <<loc, vertices_to, h, morpher, sm, warnings>>
          ELSE IF sparse
          THEN IF SparseSpacingRefused(spacing)
               THEN /\ Fail("RuntimeError: spacing must be None")
                    /\ loc' = l
                    /\ UNCHANGED <<vertices_to, h, morpher, sm, warnings>>
               ELSE LET r == ComputeSparseMorph(src_vertices, chk.subject_from,
                                                subject_to)
                    IN /\ loc' = l
                       /\ vertices_to' = r.vertices
                       /\ morph' = Some(SourceMorph(
                              chk.subject_from, subject_to, "surface",
                              NiterAffine, NiterSdr, spacing, smooth, xhemi,
                              r.morph_mat, r.vertices, None, None, None, None,
                              None, src_vertices))
                       /\ pc' = "built"
                       /\ outcome' = "ok"
                       /\ UNCHANGED <<h, morpher, sm, warnings>>
                       /\ UNCHANGED useVars /\ UNCHANGED bufVars
          ELSE LET g == GradeToVertices(subject_to, spacing)
               IN IF g.status # "ok"
                  THEN /\ Fail(g.status)
                       /\ loc' = l
                       /\ UNCHANGED <<vertices_to, h, morpher, sm, warnings>>
                  ELSE IF ~MorphMapExists(chk.subject_from, subject_to, xhemi)
                  THEN /\ Fail("NotImplementedError: xhemi morph map")
                       /\ loc' = l
                       /\ vertices_to' = g.vertices
                       /\ UNCHANGED <<h, morpher, sm, warnings>>
                  ELSE /\ loc' = l
                       /\ vertices_to' = IF xhemi THEN Reverse(g.vertices)
                                         ELSE g.vertices
                       /\ pc' = "hemi"
                       /\ h' = 1
                       /\ morpher' = <<>>
                       /\ UNCHANGED <<sm, warnings, morph, outcome>>
                       /\ UNCHANGED useVars /\ UNCHANGED bufVars

\* hemi_indexes[h - 1]
HemiFrom == h

HemiTo == IF loc.xhemi THEN 3 - h ELSE h

\* a hemisphere without source vertices kept as a block without columns
HemiSkipEmptyBlock ==
    /\ pc = "hemi"
    /\ h <= 2
    /\ Len(loc.src_data[HemiFrom]) = 0
    /\ h' = h + 1
    /\ morpher' = Append(morpher,
                     [nc |-> 0,
                      rows |-> [i \in 1..Len(vertices_to[HemiTo]) |-> <<>>]])
    /\ UNCHANGED <<pc, loc, vertices_to, sm, warnings, morph, outcome>>
    /\ UNCHANGED useVars /\ UNCHANGED bufVars

\* lines 905-907: a hemisphere without source vertices is passed over
HemiSkip ==
    /\ pc = "hemi"
    /\ h <= 2
    /\ Len(loc.src_data[HemiFrom]) = 0
    /\ h' = h + 1
    /\ UNCHANGED <<pc, loc, vertices_to, morpher, sm, warnings, morph, outcome>>
    /\ UNCHANGED useVars /\ UNCHANGED bufVars

\* lines 908-915: the edge graph, the identity as data and _morph_buffer
HemiMorph ==
    /\ pc = "hemi"
    /\ h <= 2
    /\ Len(loc.src_data[HemiFrom]) # 0
    /\ LET idx_use == loc.src_data[HemiFrom]
           e == EdgeGraph(loc.subject_from, HemiFrom)
           n_vertices == NRows(e)
           m == Eye(Len(idx_use))
           maps == ReadMorphMap(loc.subject_from, loc.subject_to, loc.xhemi)
       IN IF SmoothRejected(loc.smooth)
          THEN /\ Fail("ValueError: smooth")
               /\ UNCHANGED <<loc, vertices_to, h, morpher, sm, warnings>>
          ELSE \E last \in {SmoothLoop(SmoothBegin(m, idx_use, loc.smooth),
                                      e, n_vertices)} :
               \E r \in {SmoothFinish(last, vertices_to[HemiTo],
                                      maps[HemiFrom], loc.warn)} :
                  /\ sm' = last
                  /\ warnings' = IF r.warned
                                 THEN Append(warnings,
                                        <<Len(last.data_sum) - Len(last.idx_use),
                                          Len(last.data_sum)>>)
                                 ELSE warnings
                  /\ IF r.status # "ok"
                     THEN /\ Fail(r.status)
                          /\ UNCHANGED <<loc, vertices_to, h, morpher>>
                     ELSE /\ morpher' = Append(morpher, r.data_morphed)
                          /\ h' = h + 1
                          /\ UNCHANGED <<pc, loc, vertices_to, morph, outcome>>
                          /\ UNCHANGED useVars /\ UNCHANGED bufVars

\* lines 917-924 and, back in compute_source_morph, lines 201-207
Assemble ==
    /\ pc = "hemi"
    /\ h = 3
    /\ IF Len(morpher) = 0
       THEN /\ Fail("ValueError: Empty morph-matrix")
            /\ UNCHANGED <<loc, vertices_to, h, morpher, sm, warnings>>
       ELSE LET morph_mat == IF Len(morpher) = 1 THEN morpher[1]
                             ELSE BlockDiag(morpher)
                n_verts == SumLen(vertices_to)
            IN IF NRows(morph_mat) # n_verts
               THEN /\ Fail("AssertionError")
                    /\ UNCHANGED <<loc, vertices_to, h, morpher, sm, warnings>>
               ELSE /\ morph' = Some(SourceMorph(
                           loc.subject_from, loc.subject_to, "surface",
                           NiterAffine, NiterSdr,
                           IF loc.spacing.kind = "list"
                           THEN SpacingList(vertices_to) ELSE loc.spacing,
                           loc.smooth, loc.xhemi, morph_mat, vertices_to,
                           None, None, None, None, None, loc.src_data))
                    /\ pc' = "built"
                    /\ outcome' = "ok"
                    /\ UNCHANGED <<loc, vertices_to, h, morpher, sm, warnings>>
                    /\ UNCHANGED useVars /\ UNCHANGED bufVars

(***************************************************************************)
(* Source estimates.  An estimate is [subject, vertices, vector, T, rows,  *)
(* tmin, tstep]: rows has one entry per vertex (left hemisphere first); a  *)
(* scalar row is a sequence of T values, a vector row three such           *)
(* sequences (shape (n, 3, T)).                                            *)
(***************************************************************************)
MaxT == 1

\* the data of a test estimate on n vertices: all values distinct
StcRows(n, vector, T) ==
    [i \in 1..n |->
        IF vector
        THEN [c \in 1..3 |-> [t \in 1..T |-> RInt(100 * c + 10 * i + t)]]
        ELSE [t \in 1..T |-> RInt(10 * i + t)]]

Estimate(subject, vertices, vector, T, rows, tmin, tstep) ==
    [subject |-> subject, vertices |-> vertices, vector |-> vector, T |-> T,
     rows |-> rows, tmin |-> tmin, tstep |-> tstep]

\* stc.lh_data and stc.rh_data
LhRows(stc) == SubSeq(stc.rows, 1, Len(stc.vertices[1]))

RhRows(stc) == SubSeq(stc.rows, Len(stc.vertices[1]) + 1, Len(stc.rows))

\* a (n, 3, T) array reshaped to (n, 3 * T), and back
Flatten3(rows) == [i \in 1..Len(rows) |-> rows[i][1] \o rows[i][2] \o rows[i][3]]

Unflatten3(rows2, T) ==
    [i \in 1..Len(rows2) |->
        [c \in 1..3 |-> SubSeq(rows2[i], (c - 1) * T + 1, c * T)]]

\* the check of the estimate constructors: one data row per vertex
EstimateShapeOk(rows, vertices) == Len(rows) = SumLen(vertices)

(***************************************************************************)
(* _apply_morph_data, surface branch (lines 1171-1173, 1198-1229):         *)
(* [status, stc_to]                                                        *)
(***************************************************************************)
NoEstimate == [status |-> "", stc_to |-> None]

\* a comparison of the left hemisphere only
VerticesMatchLeft(src_data, vertices) == src_data[1] = vertices[1]

\* lines 1201-1206: np.array_equal on each hemisphere
VerticesMatch(src_data, vertices) ==
    \A hh \in 1..2 : src_data[hh] = vertices[hh]

\* lines 1211-1215
SelectData(vertices_to_m, stc) ==
    IF Len(vertices_to_m[1]) # 0 /\ Len(vertices_to_m[2]) # 0 THEN stc.rows
    ELSE IF Len(vertices_to_m[1]) # 0 THEN LhRows(stc)
    ELSE RhRows(stc)

\* an apply that hands the estimate back as it came
ApplyMorphDataUnmorphed(m, stc) == [status |-> "ok", stc_to |-> Some(stc)]

ApplyMorphData(m, stc) ==
    IF stc.subject # NoSubject /\ stc.subject # m.subject_from
    THEN [status |-> "ValueError: stc.subject != morph.subject_from",
          stc_to |-> None]
    ELSE IF ~VerticesMatch(m.src_data, stc.vertices)
    THEN [status |-> "ValueError: vertices do not match", stc_to |-> None]
    ELSE LET data == SelectData(m.vertices_to, stc)
             n_verts == Len(stc.rows)
             width == IF stc.vector THEN 3 * stc.T ELSE stc.T
         IN IF stc.vector /\ Len(data) # n_verts
            THEN [status |-> "ValueError: cannot reshape", stc_to |-> None]
            ELSE IF m.morph_mat.nc # Len(data)
            THEN [status |-> "ValueError: dimension mismatch", stc_to |-> None]
            ELSE LET d2 == [nc |-> width,
                            rows |-> IF stc.vector THEN Flatten3(data) ELSE data]
                     prod == MatMul(m.morph_mat, d2)
                     out == IF stc.vector THEN Unflatten3(prod.rows, stc.T)
                            ELSE prod.rows
                 IN IF ~EstimateShapeOk(out, m.vertices_to)
                    THEN [status |-> "ValueError: estimate shape",
                          stc_to |-> None]
                    ELSE [status |-> "ok",
                          stc_to |-> Some(Estimate(m.subject_to, m.vertices_to,
                                                   stc.vector, stc.T, out,
                                                   stc.tmin, stc.tstep))]

(***************************************************************************)
(* SourceMorph.__call__, lines 349-370: [status, stc_to, morph], morph     *)
(* being the morph object after the call.                                  *)
(***************************************************************************)
\* a call that takes the estimate's subject whatever subject_from holds
CallDirectOverwrite(m, stc_in) ==
    LET stc == IF stc_in.subject = NoSubject
               THEN [stc_in EXCEPT !.subject = m.subject_from] ELSE stc_in
        m2 == [m EXCEPT !.subject_from = stc.subject]
    IN IF stc.subject # m2.subject_from
       THEN [status |-> "ValueError: subjects must match", stc_to |-> None,
             morph |-> m2]
       ELSE LET r == ApplyMorphData(m2, stc)
            IN [status |-> r.status, stc_to |-> r.stc_to, morph |-> m2]

CallDirect(m, stc_in) ==
    LET stc == IF stc_in.subject = NoSubject
               THEN [stc_in EXCEPT !.subject = m.subject_from] ELSE stc_in
        m2 == IF m.subject_from = NoSubject
              THEN [m EXCEPT !.subject_from = stc.subject] ELSE m
    IN IF stc.subject # m2.subject_from
       THEN [status |-> "ValueError: subjects must match", stc_to |-> None,
             morph |-> m2]
       ELSE LET r == ApplyMorphData(m2, stc)
            IN [status |-> r.status, stc_to |-> r.stc_to, morph |-> m2]

\* as_volume=True goes through SourceMorph.as_volume (apply_morph=True):
\* the morph is applied, then _stc_as_volume refuses an estimate that is not
\* a volume estimate
CallMorph(m, stc_in, as_volume) ==
    IF as_volume
    THEN LET r == CallDirect(m, stc_in)
         IN [status |-> IF r.status = "ok"
                        THEN "ValueError: Only volume source estimates"
                        ELSE r.status,
             stc_to |-> None, morph |-> r.morph]
    ELSE CallDirect(m, stc_in)

\* the estimates a morph is applied to: the matching one as scalar and as
\* vector data under every subject, and one with different vertices (as
\* many of them, where there are any) on either hemisphere
OtherList(v) == IF v = <<>> THEN <<0>> ELSE [i \in 1..Len(v) |-> v[i] + 1]

StcVertices(m) ==
    {m.src_data, <<OtherList(m.src_data[1]), m.src_data[2]>>,
     <<m.src_data[1], OtherList(m.src_data[2])>>}

Call(subject, vertices, vector, as_volume) ==
    /\ pc = "built"
    /\ morph # None
    /\ LET stc == Estimate(subject, vertices, vector, MaxT,
                           StcRows(SumLen(vertices), vector, MaxT), 2, 3)
       IN /\ stc_from' = Some([stc |-> stc, as_volume |-> as_volume])
          /\ \E r \in {CallMorph(morph[1], stc, as_volume)} :
             /\ stc_to' = r.stc_to
             /\ outcome' = r.status
             /\ morph' = Some(r.morph)
    /\ UNCHANGED <<pc, file, loaded>>
    /\ UNCHANGED buildVars /\ UNCHANGED bufVars

Apply ==
    /\ pc = "built"
    /\ morph # None
    /\ \E subject \in Subjects \cup {NoSubject},
          vertices \in StcVertices(morph[1]),
          vector \in BOOLEAN, as_volume \in BOOLEAN :
          /\ (vertices # morph[1].src_data \/ as_volume)
                => (~vector /\ subject = loc.subject_from)
          /\ Call(subject, vertices, vector, as_volume)

\* A SourceMorph made by calling the class itself, with the attributes of
\* a morph built with the default options but no subject_from
\* (subject_from : str | None)
ConstructDirect ==
    /\ pc = "built"
    /\ morph # None
    /\ morph[1].subject_from # NoSubject
    /\ morph[1].spacing = SpacingNone /\ morph[1].smooth = None
    /\ ~morph[1].xhemi /\ ~loc.sparse
    /\ stc_from = None /\ file = None
    /\ LET m == morph[1]
       IN morph' = Some(SourceMorph(
              NoSubject, m.subject_to, m.kind, m.niter_affine, m.niter_sdr,
              m.spacing, m.smooth, m.xhemi, m.morph_mat, m.vertices_to,
              m.morph_shape, m.morph_zooms, m.morph_affine, m.pre_sdr_affine,
              m.sdr_mapping, m.src_data))
    /\ UNCHANGED <<pc, outcome>>
    /\ UNCHANGED buildVars /\ UNCHANGED bufVars
    /\ UNCHANGED useVars /\ UNCHANGED bufVars

(***************************************************************************)
(* save and read_source_morph.  write_hdf5 stores a dict key by key, a     *)
(* sparse matrix as its shape and its stored (non-zero) entries; read_hdf5 *)
(* restores it.                                                            *)
(***************************************************************************)
EncodeSparse(M) ==
    [shape |-> <<NRows(M), M.nc>>,
     entries |-> {<<i, j, M.rows[i][j]>> : i \in 1..NRows(M), j \in 1..M.nc}
                 \ {<<i, j, RZero>> : i \in 1..NRows(M), j \in 1..M.nc}]

DecodeSparse(enc) ==
    Mat(enc.shape[1], enc.shape[2],
        [i \in 1..enc.shape[1], j \in 1..enc.shape[2] |->
            IF \E t \in enc.entries : t[1] = i /\ t[2] = j
            THEN (CHOOSE t \in enc.entries : t[1] = i /\ t[2] = j)[3]
            ELSE RZero])

WriteHdf5(d) ==
    [key \in DOMAIN d |->
        IF key = "morph_mat" /\ d[key] # None
        THEN Some(EncodeSparse(d[key][1])) ELSE d[key]]

ReadHdf5(f) ==
    [key \in DOMAIN f |->
        IF key = "morph_mat" /\ f[key] # None
        THEN Some(DecodeSparse(f[key][1])) ELSE f[key]]

\* getattr(self, key): morph_mat is an object or None, held as an optional
GetAttr(m, key) == IF key = "morph_mat" THEN Some(m.morph_mat) ELSE m[key]

\* SourceMorph.save, lines 406-411
SaveDict(m) ==
    WriteHdf5([key \in Range(SOURCE_MORPH_ATTRIBUTES) |-> GetAttr(m, key)])

\* read_source_morph: SourceMorph(**vals) binds the keys to the parameters
\* of __init__; a missing or an unexpected key is a TypeError
ReadSourceMorph(f) ==
    LET vals == ReadHdf5(f)
    IN IF DOMAIN vals # Range(InitParameters)
       THEN [status |-> "TypeError", morph |-> None]
       ELSE [status |-> "ok",
             morph |-> Some(SourceMorph(
                 vals["subject_from"], vals["subject_to"], vals["kind"],
                 vals["niter_affine"], vals["niter_sdr"], vals["spacing"],
                 vals["smooth"], vals["xhemi"], vals["morph_mat"][1],
                 vals["vertices_to"], vals["morph_shape"],
                 vals["morph_zooms"], vals["morph_affine"],
                 vals["pre_sdr_affine"], vals["sdr_mapping"],
                 vals["src_data"]))]

Save ==
    /\ pc = "built"
    /\ morph # None
    /\ file' = Some(SaveDict(morph[1]))
    /\ UNCHANGED <<pc, morph, outcome, stc_from, stc_to, loaded>>
    /\ UNCHANGED buildVars /\ UNCHANGED bufVars

Read ==
    /\ file # None
    /\ loaded' = ReadSourceMorph(file[1]).morph
    /\ UNCHANGED <<pc, morph, outcome, stc_from, stc_to, file>>
    /\ UNCHANGED buildVars /\ UNCHANGED bufVars

SourceOwner(subject_from, src_subject) ==
    IF src_subject # NoSubject THEN src_subject
    ELSE IF subject_from # NoSubject THEN subject_from ELSE "sA"

Build ==
    /\ pc = "idle"
    /\ \E subject_from \in Subjects \cup {NoSubject},
          src_kind \in {"stc", "spaces"},
          src_subject \in Subjects \cup {NoSubject},
          subject_to \in Subjects,
          spacing \in SpacingArgs, smooth \in SmoothArgs,
          warn \in BOOLEAN, xhemi \in BOOLEAN, sparse \in BOOLEAN :
          \E lh \in SrcLists(SurfacePoints(SourceOwner(subject_from, src_subject), 1)),
             rh \in SrcLists(SurfacePoints(SourceOwner(subject_from, src_subject), 2)) :
             ComputeSourceMorph(subject_from, src_kind, src_subject, <<lh, rh>>,
                                subject_to, spacing, smooth, warn, xhemi, sparse)

Next ==
    \/ Build
    \/ HemiSkip
    \/ HemiMorph
    \/ Assemble
    \/ Apply
    \/ ConstructDirect
    \/ Save
    \/ Read

Spec == Init /\ [][Next]_vars

(***************************************************************************)
(* _morph_buffer called on its own, one loop iteration at a time, with the *)
(* arguments _compute_morph_matrix passes: the identity as csr data, the   *)
(* edge graph of a hemisphere, a morph map onto subject_to.                *)
(***************************************************************************)
\* every vertex has the same neighbours as each of its neighbours: repeated
\* averaging then settles after one pass.  (Elsewhere the exact fractions
\* outgrow TLC's integers after a few passes, which limits smooth there.)
Settles(e) ==
    \A i, j \in 1..NRows(e) : e.rows[i][j] # 0 => e.rows[i] = e.rows[j]

SmoothCalls(e) ==
    {None} \cup {Some(n) : n \in (0 - 1)..(MaxSmooth + 2)}
    \cup (IF Settles(e) THEN {Some(n_iter + 1), Some(n_iter + 2)} ELSE {})

RECURSIVE SeqOfSet(_)
SeqOfSet(S) ==
    IF S = {} THEN <<>>
    ELSE LET x == CHOOSE y \in S : \A z \in S : y <= z
         IN <<x>> \o SeqOfSet(S \ {x})

\* the non-empty strictly increasing vertex lists of a mesh with n vertices
VertexLists(n) == {SeqOfSet(S) : S \in (SUBSET (0..(n - 1))) \ {{}}}

CallEdges == EdgeGraph(mb.subject, mb.hemi)

CallMaps == ReadMorphMap(mb.subject, mb.subject_to, FALSE)[mb.hemi]

\* lines 1046-1061
MorphBuffer(subject, hemi, subject_to, idx_use, smooth, nearest, warn, use_sparse) ==
    /\ mb.pos = "idle"
    /\ IF SmoothRejected(smooth)
       THEN /\ mb' = [pos |-> "failed", subject |-> subject, hemi |-> hemi,
                      smooth |-> smooth, nearest |-> nearest,
                      subject_to |-> subject_to, warn |-> warn,
                      use_sparse |-> use_sparse]
            /\ outcome' = "ValueError: smooth"
            /\ sm' = [NoSmooth EXCEPT !.idx_use = idx_use]
       ELSE /\ mb' = [pos |-> "loop", subject |-> subject, hemi |-> hemi,
                      smooth |-> smooth, nearest |-> nearest,
                      subject_to |-> subject_to, warn |-> warn,
                      use_sparse |-> use_sparse]
            /\ sm' = SmoothBegin(Eye(Len(idx_use)), idx_use, smooth)
            /\ UNCHANGED outcome
    /\ UNCHANGED <<pc, loc, vertices_to, h, morpher, warnings, morph,
                   data_morphed>>
    /\ UNCHANGED useVars

BufferCall ==
    /\ mb.pos = "idle"
    /\ \E subject \in Subjects, hemi \in Hemis, warn \in BOOLEAN,
          use_sparse \in BOOLEAN :
          \E idx_use \in VertexLists(SurfacePoints(subject, hemi)),
             smooth \in SmoothCalls(EdgeGraph(subject, hemi)),
             subject_to \in Subjects \ {subject} :
             MorphBuffer(subject, hemi, subject_to, idx_use, smooth,
                         Arange(SurfacePoints(subject_to, hemi)), warn,
                         use_sparse)

\* one iteration of the loop, lines 1063-1096
SmoothIter ==
    /\ mb.pos = "loop"
    /\ LoopRuns(sm)
    /\ sm' = SmoothStep(sm, CallEdges, NRows(CallEdges))
    /\ UNCHANGED <<pc, loc, vertices_to, h, morpher, warnings, morph, outcome,
                   mb, data_morphed>>
    /\ UNCHANGED useVars

\* after the loop, lines 1098-1112
SmoothReturn ==
    /\ mb.pos = "loop"
    /\ ~LoopRuns(sm)
    /\ \E r \in {IF mb.use_sparse
                  THEN SmoothFinish(sm, mb.nearest, CallMaps, mb.warn)
                  ELSE SmoothFinishDense(sm, mb.nearest, CallMaps, mb.warn)} :
          /\ warnings' = IF r.warned
                         THEN Append(warnings,
                                <<Len(sm.data_sum) - Len(sm.idx_use),
                                  Len(sm.data_sum)>>)
                         ELSE warnings
          /\ outcome' = r.status
          /\ data_morphed' = IF r.status = "ok" THEN Some(r.data_morphed)
                             ELSE None
          /\ mb' = [mb EXCEPT !.pos = IF r.status = "ok" THEN "returned"
                                      ELSE "failed"]
    /\ UNCHANGED <<pc, loc, vertices_to, h, morpher, sm, morph>>
    /\ UNCHANGED useVars

NextSmooth ==
    \/ BufferCall
    \/ SmoothIter
    \/ SmoothReturn

SpecSmooth == Init /\ [][NextSmooth]_vars

(***************************************************************************)
(* Properties of compute_source_morph and of the SourceMorph it returns,   *)
(* checked under Spec.                                                     *)
(***************************************************************************)

\* C1: every surface morph compute_source_morph builds with sparse=False,
\* whatever source hemispheres are empty, has a morph_mat of exactly
\* sum(len(v) for v in vertices_to) rows, so that the assertion after the
\* assembly (line 202) never fails.
C1_RowCount ==
    ~loc.sparse =>
        /\ outcome # "AssertionError"
        /\ (pc = "built" =>
               NRows(morph[1].morph_mat) = SumLen(morph[1].vertices_to))

\* the assertion fails: one source hemisphere is empty and skipped, its
\* destination vertices are still counted
C1_AssertionFails ==
    /\ pc = "failed"
    /\ outcome = "AssertionError"
    /\ loc.src_data[2] = <<>>
    /\ Len(vertices_to[2]) > 0
    /\ Len(morpher) = 1
    /\ NRows(morpher[1]) = Len(vertices_to[1])

\* C2: the identity morph (source subject = destination subject, identity
\* morph map, source and destination vertices the full mesh, xhemi False,
\* smooth None) has the identity matrix as its operator, and applying it
\* returns the data unchanged.
C2_IdentityMorph ==
    (/\ pc = "built"
     /\ ~loc.sparse /\ ~loc.xhemi
     /\ loc.subject_from = loc.subject_to
     /\ loc.smooth = None
     /\ \A hh \in Hemis :
           /\ loc.src_data[hh] = Arange(SurfacePoints(loc.subject_from, hh))
           /\ vertices_to[hh] = Arange(SurfacePoints(loc.subject_to, hh)))
    => /\ morph[1].morph_mat = Eye(SumLen(loc.src_data))
       /\ (stc_to # None => stc_to[1].rows = stc_from[1].stc.rows)

\* C3: applying a surface SourceMorph to an estimate whose vertices differ,
\* on either hemisphere, from the morph's src_data fails with an error and
\* returns no estimate.
C3_VertexMismatchFails ==
    (/\ stc_from # None
     /\ morph # None
     /\ stc_from[1].stc.vertices # morph[1].src_data)
    => /\ stc_to = None
       /\ outcome \in {"ValueError: vertices do not match",
                       "ValueError: subjects must match",
                       "ValueError: stc.subject != morph.subject_from"}

\* the estimate has as many vertices as the morph expects on both
\* hemispheres, other ones on the right: the call raised
C3_MismatchRaised ==
    /\ stc_from # None
    /\ morph # None
    /\ stc_from[1].stc.vertices[1] = morph[1].src_data[1]
    /\ stc_from[1].stc.vertices[2] # morph[1].src_data[2]
    /\ Len(stc_from[1].stc.vertices[2]) = Len(morph[1].src_data[2])
    /\ ~stc_from[1].as_volume
    /\ outcome = "ValueError: vertices do not match"
    /\ stc_to = None

\* C4: SourceMorph.__call__ never changes any attribute of the morph: after
\* a call, successful or failing, each of the 16 attributes is what it was.
C4_ApplyChangesNothing ==
    [][Apply => morph' = morph]_vars

\* C4, as the code has it: a call changes no attribute but subject_from, and
\* subject_from only while it is None, to the subject of the estimate (line
\* 363); a morph that has a subject_from, as every morph
\* compute_source_morph returns has, is never changed.
C4_ApplyChangesOnlyUnsetSubject ==
    [][Apply =>
         /\ \A key \in Range(SOURCE_MORPH_ATTRIBUTES) \ {"subject_from"} :
               morph'[1][key] = morph[1][key]
         /\ \/ morph'[1].subject_from = morph[1].subject_from
            \/ /\ morph[1].subject_from = NoSubject
               /\ morph'[1].subject_from = stc_from'[1].stc.subject]_vars

\* a morph constructed without subject_from has been applied and now holds
\* the subject of the estimate
C4_SubjectFilledIn ==
    /\ morph # None
    /\ stc_from # None
    /\ loc.subject_from # NoSubject
    /\ morph[1].subject_from = "sB"
    /\ loc.subject_from = "sA"
    /\ outcome = "ok"

C7_EmptyHemisphereSkipped ==
    ~loc.sparse =>
        /\ Len(morpher) <=
              Cardinality({i \in 1..2 : i < h /\ loc.src_data # <<>>
                                        /\ loc.src_data[i] # <<>>})
        /\ (pc \in {"hemi", "built"} =>
               Len(morpher) =
                  Cardinality({i \in 1..2 : i < h /\ loc.src_data[i] # <<>>}))
        /\ (pc = "built" =>
               /\ morph[1].morph_mat.nc = SumLen(loc.src_data)
               /\ NRows(morph[1].morph_mat) =
                     ISum([i \in 1..2 |->
                              IF loc.src_data[i] = <<>> THEN 0
                              ELSE Len(vertices_to[IF loc.xhemi THEN 3 - i
                                                   ELSE i])]))
        /\ (/\ pc \in {"built", "failed"}
            /\ h = 3
            /\ loc.src_data = <<<<>>, <<>>>>)
           => /\ pc = "failed"
              /\ outcome = "ValueError: Empty morph-matrix"
              /\ morph = None

\* a morph built from a source with an empty right hemisphere: one block
C7_OneBlock ==
    /\ pc = "built"
    /\ ~loc.sparse
    /\ loc.src_data[1] # <<>>
    /\ loc.src_data[2] = <<>>
    /\ Len(morpher) = 1
    /\ morph[1].morph_mat = morpher[1]

(***************************************************************************)
(* Properties of the smoothing loop of _morph_buffer, checked under        *)
(* SpecSmooth.  sm.k is the index of the iteration last run (-1: none), so *)
(* sm.k + 1 iterations, each with one multiplication by e, have run.       *)
(***************************************************************************)

\* C6: _morph_buffer rejects every smooth <= 0 with an error before it runs
\* any smoothing iteration; every smooth >= 1 and smooth=None pass the
\* check.
C6_SmoothCheck ==
    mb.pos # "idle" =>
        /\ (mb.smooth # None /\ mb.smooth[1] <= 0)
              <=> outcome = "ValueError: smooth"
        /\ outcome = "ValueError: smooth" =>
              /\ mb.pos = "failed"
              /\ sm.k = 0 - 1
              /\ data_morphed = None
        /\ (mb.smooth = None \/ mb.smooth[1] >= 1) /\ mb.pos # "loop" =>
              sm.k >= 0

\* smooth = 0 has been rejected with no iteration run
C6_ZeroRejected ==
    /\ mb.pos = "failed"
    /\ mb.smooth = Some(0)
    /\ outcome = "ValueError: smooth"
    /\ sm.k = 0 - 1

\* C8: with smooth=None the loop ends at the first iteration whose new
\* active set covers all N vertices, or at iteration index 99 if none does,
\* and the call then returns without raising, also when vertices stay
\* unreached.
C8_NoneStopsOnCoverageOrCeiling ==
    [][(mb.pos = "loop" /\ mb.smooth = None) =>
          LET N == SurfacePoints(mb.subject, mb.hemi)
          IN /\ sm' # sm =>
                   /\ sm'.k = sm.k + 1
                   /\ sm.k < 99
                   /\ sm.k >= 0 => Len(sm.idx_use) < N
             /\ mb'.pos # "loop" =>
                   /\ sm.k >= 0
                   /\ Len(sm.idx_use) >= N \/ sm.k = 99
                   /\ mb'.pos = "returned"
                   /\ outcome' = "ok"
                   /\ data_morphed' # None]_vars

\* a call with smooth=None has returned after iteration 99 with vertices
\* unreached
C8_CeilingReached ==
    /\ mb.pos = "returned"
    /\ mb.smooth = None
    /\ sm.k = 99
    /\ Len(sm.idx_use) < SurfacePoints(mb.subject, mb.hemi)
    /\ outcome = "ok"

\* C9: with smooth set to an integer N >= 1 the loop stops exactly at
\* iteration index N - 1, after N multiplications, and that iteration is
\* the one flagged done.
C9_StopsAtSmoothMinusOne ==
    (mb.pos \in {"loop", "returned", "failed"} /\ mb.smooth # None
        /\ mb.smooth[1] >= 1)
    => /\ sm.k <= mb.smooth[1] - 1
       /\ sm.done <=> sm.k = mb.smooth[1] - 1
       /\ mb.pos # "loop" => sm.done

\* smooth = 101: the loop has ended after iteration 99, not flagged done,
\* and the normalization that follows the loop has raised
C9_EndsUnflagged ==
    /\ mb.pos = "failed"
    /\ mb.smooth = Some(101)
    /\ sm.k = 99
    /\ ~sm.done
    /\ outcome = "ValueError: repeat"

\* C10: whatever smooth (None or >= 1), mesh and source subset, the loop
\* runs at most 100 iterations and then ends: after iteration 99 no
\* further iteration follows, the call goes on to its end.
C10_AtMost100Iterations ==
    [][/\ sm'.k + 1 <= 100
       /\ (mb.pos = "loop" /\ sm' # sm) => sm'.k = sm.k + 1
       /\ (mb.pos = "loop" /\ sm.k + 1 = 100) =>
             /\ sm' = sm
             /\ mb'.pos \in {"returned", "failed"}
       /\ (mb.pos = "loop" /\ mb'.pos # "loop") => sm.k + 1 \in 1..100]_vars

\* 100 iterations have run for a request of 101, and the call has returned
C10_HundredRun ==
    /\ mb.pos = "returned"
    /\ mb.smooth = Some(101)
    /\ sm.k + 1 = 100

\* C11: with xhemi=True, vertices_from = [[], vert_rh] and vertices_to =
\* [vert_lh, []], the morph matrix maps the right-hemisphere source vertices
\* onto the left-hemisphere destination vertices: it has len(vert_lh) rows
\* and len(vert_rh) columns.
C11_XhemiRightToLeft ==
    (/\ pc \in {"hemi", "built", "failed"}
     /\ h = 3
     /\ ~loc.sparse /\ loc.xhemi
     /\ loc.src_data[1] = <<>> /\ loc.src_data[2] # <<>>
     /\ loc.spacing.kind = "list"
     /\ loc.spacing.list[1] # <<>> /\ loc.spacing.list[2] = <<>>)
    => /\ Len(morpher) = 1
       /\ NRows(morpher[1]) = Len(loc.spacing.list[1])
       /\ morpher[1].nc = Len(loc.src_data[2])
       /\ pc # "failed"

\* the documented call has produced a matrix without rows, which the
\* assertion of compute_source_morph then refuses
C11_NoRows ==
    /\ pc = "failed"
    /\ outcome = "AssertionError"
    /\ loc.xhemi
    /\ loc.src_data[1] = <<>> /\ loc.src_data[2] # <<>>
    /\ loc.spacing = SpacingList(<<<<0, 1>>, <<>>>>)
    /\ vertices_to = <<<<>>, <<0, 1>>>>
    /\ Len(morpher) = 1
    /\ NRows(morpher[1]) = 0

\* the call C12 is about has returned: a mesh of 4 vertices with a single
\* triangle, every vertex active, smooth = 1
SingleTriangleCall ==
    /\ mb.pos = "returned"
    /\ SurfacePoints(mb.subject, mb.hemi) = 4
    /\ Cardinality(SurfaceTris(mb.subject, mb.hemi)) = 1
    /\ mb.smooth = Some(1)
    /\ sm.idx_use_data = Arange(4)

\* C12: on a mesh of 4 vertices with a single triangle, all vertices active
\* and smooth=1, the smoother's output before the morph-map multiply is
\* (edge_graph + identity) * data with each row divided by the vertex's
\* degree, the degree being 3 for each vertex.
C12_SinglePassDegreeThree ==
    SingleTriangleCall =>
        /\ sm.k = 0
        /\ sm.data = [nc |-> 4,
                      rows |-> [i \in 1..4 |-> [j \in 1..4 |->
                                   RInt(CallEdges.rows[i][j])]]]
        /\ sm.data_sum = <<3, 3, 3, 3>>
        /\ data_morphed =
              Some(MapsMul(CallMaps, mb.nearest,
                           DivideRows(sm.data, <<3, 3, 3, 3>>)))

\* C12, as the code has it: the output is (edge_graph + identity) * data
\* with each row divided by the vertex's degree, which is 3 for the three
\* vertices of the triangle and 1 (the self-loop) for the fourth vertex.
C12_SinglePassByDegree ==
    SingleTriangleCall =>
        LET tri == CHOOSE t \in SurfaceTris(mb.subject, mb.hemi) : TRUE
            degree == [i \in 1..4 |->
                          IF i - 1 \in {tri[1], tri[2], tri[3]} THEN 3 ELSE 1]
        IN /\ sm.k = 0
           /\ sm.data = [nc |-> 4,
                         rows |-> [i \in 1..4 |-> [j \in 1..4 |->
                                      RInt(CallEdges.rows[i][j])]]]
           /\ sm.data_sum = degree
           /\ data_morphed =
                 Some(MapsMul(CallMaps, mb.nearest,
                              DivideRows(sm.data, degree)))

\* the scenario has run: the vertex outside the triangle has degree 1
C12_ScenarioRan ==
    /\ SingleTriangleCall
    /\ sm.data_sum = <<1, 3, 3, 3>>
    /\ sm.done

\* the nearest-neighbour mapping of an integer grade holds the same vertex
\* index twice, in one of the two hemispheres of the subject
NearestRepeats(subject, grade) ==
    \E hh \in 1..2 :
        LET near == ComputeNearest(subject, hh, grade)
        IN \E i, j \in 1..Len(near) : i # j /\ near[i] = near[j]

\* C13: grade_to_vertices with an integer grade fails with an error naming
\* the grade whenever the nearest-neighbour mapping contains the same vertex
\* index twice: it never returns a list with a repeated index and never
\* deduplicates; when it succeeds each hemisphere list is strictly
\* increasing.
C13_RepeatedVerticesRejected ==
    (/\ pc # "idle" /\ loc # NoLoc
     /\ ~loc.sparse /\ loc.spacing.kind = "grade")
    => LET grade == loc.spacing.grade
           g == GradeToVertices(loc.subject_to, loc.spacing)
       IN IF NearestRepeats(loc.subject_to, grade)
          THEN /\ pc = "failed"
               /\ outcome = "ValueError: repeated vertices"
               /\ g.status = outcome
               /\ g.message[1] = grade
               /\ vertices_to = <<>>
               /\ morph = None
          ELSE /\ outcome # "ValueError: repeated vertices"
               /\ Len(vertices_to) = 2
               /\ \A hh \in 1..2 :
                     /\ StrictlyIncreasing(vertices_to[hh])
                     /\ Len(vertices_to[hh]) = grade + 1
               /\ \/ \A hh \in 1..2 :
                        Range(vertices_to[hh])
                          = Range(ComputeNearest(loc.subject_to, hh, grade))
                  \/ /\ loc.xhemi
                     /\ \A hh \in 1..2 :
                           Range(vertices_to[3 - hh])
                             = Range(ComputeNearest(loc.subject_to, hh, grade))

\* a grade whose mapping repeats a vertex has been refused
C13_GradeRefused ==
    /\ pc = "failed"
    /\ outcome = "ValueError: repeated vertices"
    /\ loc.spacing = SpacingGrade(2)
    /\ NearestRepeats(loc.subject_to, 2)

\* C14: a successful surface apply returns a new estimate whose tmin and
\* tstep are those of the input, whose subject is the morph's subject_to,
\* whose vertices are the morph's vertices_to and whose number of data rows
\* is the total number of vertices in vertices_to.
C14_MorphedEstimateFrame ==
    stc_to # None
    => /\ stc_from # None /\ morph # None /\ outcome = "ok"
       /\ stc_to[1].tmin = stc_from[1].stc.tmin
       /\ stc_to[1].tstep = stc_from[1].stc.tstep
       /\ stc_to[1].subject = morph[1].subject_to
       /\ stc_to[1].vertices = morph[1].vertices_to
       /\ Len(stc_to[1].rows) = SumLen(morph[1].vertices_to)
       /\ stc_to[1].vector = stc_from[1].stc.vector
       /\ stc_from[1].stc.vertices = morph[1].src_data

\* an estimate has been morphed onto another subject and other vertices
C14_Morphed ==
    /\ stc_to # None
    /\ outcome = "ok"
    /\ stc_to[1].subject # stc_from[1].stc.subject
    /\ stc_to[1].vertices # stc_from[1].stc.vertices
    /\ Len(stc_to[1].rows) # Len(stc_from[1].stc.rows)

\* the last call applied the morph to vector data whose subject and vertices
\* are those the morph was built for
VectorCallMatches ==
    /\ stc_from # None /\ morph # None
    /\ stc_from[1].stc.vector /\ ~stc_from[1].as_volume
    /\ stc_from[1].stc.subject \in {NoSubject, morph[1].subject_from}
    /\ VerticesMatch(morph[1].src_data, stc_from[1].stc.vertices)

\* C15: applying a surface morph to vector data of shape (N, 3, T) succeeds
\* for every morph whose source layout matches and yields data of shape
\* (rows of morph_mat, 3, T), including when one hemisphere of vertices_to
\* is empty.
C15_VectorApplySucceeds ==
    VectorCallMatches
    => /\ outcome = "ok"
       /\ stc_to # None
       /\ Len(stc_to[1].rows) = NRows(morph[1].morph_mat)
       /\ \A i \in 1..Len(stc_to[1].rows) :
             /\ Len(stc_to[1].rows[i]) = 3
             /\ \A c \in 1..3 :
                   Len(stc_to[1].rows[i][c]) = stc_from[1].stc.T

\* vector data on both hemispheres, a morph onto the left hemisphere only:
\* the reshape of the left-hemisphere rows to all n_verts rows fails
C15_ReshapeFails ==
    /\ VectorCallMatches
    /\ outcome = "ValueError: cannot reshape"
    /\ stc_to = None
    /\ morph[1].src_data[1] # <<>> /\ morph[1].src_data[2] # <<>>
    /\ morph[1].vertices_to[1] # <<>> /\ morph[1].vertices_to[2] = <<>>

\* compute_source_morph(sparse=True) has returned a morph
SparseBuilt == pc = "built" /\ loc.sparse /\ morph # None

\* the vertex of subject_to nearest to vertex v of hemisphere hh of
\* subject_from: the column of the largest entry of row v of the morph map
Correspondent(hh, v) ==
    ArgmaxNnz(ReadMorphMap(loc.subject_to, loc.subject_from, FALSE)[hh].rows[v + 1])

\* C16: the matrix the sparse builder produces is a square permutation
\* matrix of size the total source vertex count: exactly one 1 in every row
\* and every column; row i selects the source vertex whose correspondent
\* it is, never a source vertex of the other hemisphere.
C16_SparsePermutation ==
    SparseBuilt
    => LET M == morph[1].morph_mat
           n == SumLen(loc.src_data)
           n_lh == Len(loc.src_data[1])
           ones(i) == {j \in 1..n : M.rows[i][j] = ROne}
       IN /\ NRows(M) = n /\ M.nc = n
          /\ SumLen(morph[1].vertices_to) = n
          /\ \A i \in 1..n :
                /\ Cardinality(ones(i)) = 1
                /\ \A j \in 1..n : M.rows[i][j] \in {RZero, ROne}
          /\ \A j \in 1..n : Cardinality({i \in 1..n : j \in ones(i)}) = 1
          /\ \A i \in 1..n :
                LET j == CHOOSE c \in ones(i) : TRUE
                    hh == IF i <= Len(morph[1].vertices_to[1]) THEN 1 ELSE 2
                    off == IF hh = 1 THEN 0 ELSE n_lh
                IN /\ j - off \in 1..Len(loc.src_data[hh])
                   /\ morph[1].vertices_to[hh][i - off]
                        = Correspondent(hh, loc.src_data[hh][j - off])

\* a sparse morph between two subjects with source vertices on both
\* hemispheres whose rows are not in the order of the source vertices
C16_SparseBothHemispheres ==
    /\ SparseBuilt
    /\ loc.subject_from # loc.subject_to
    /\ Len(loc.src_data[1]) > 1 /\ Len(loc.src_data[2]) > 1
    /\ morph[1].morph_mat # Eye(SumLen(loc.src_data))

\* C17: the sparse builder produces a one-to-one mapping: the destination
\* vertex list of each hemisphere is strictly increasing, no two source
\* vertices being assigned the same destination vertex.
C17_SparseOneToOne ==
    SparseBuilt
    => \A hh \in 1..2 :
          /\ StrictlyIncreasing(morph[1].vertices_to[hh])
          /\ \A i, j \in 1..Len(loc.src_data[hh]) :
                i # j => Correspondent(hh, loc.src_data[hh][i])
                           # Correspondent(hh, loc.src_data[hh][j])

\* a hemisphere with more source vertices than the destination surface has:
\* two of them share their nearest vertex, which is returned twice
C17_DestinationRepeated ==
    /\ SparseBuilt
    /\ outcome = "ok"
    /\ \E hh \in 1..2 :
          /\ Len(loc.src_data[hh]) > SurfacePoints(loc.subject_to, hh)
          /\ HasRepeat(morph[1].vertices_to[hh])
          /\ \A i \in 1..(Len(morph[1].vertices_to[hh]) - 1) :
                morph[1].vertices_to[hh][i] <= morph[1].vertices_to[hh][i + 1]

\* C18: sparse=True on a surface source fails with an error and builds no
\* morph whenever spacing is anything other than None; with spacing=None it
\* builds the nearest-correspondence morph and ignores smooth, xhemi and
\* warn.
C18_SparseNeedsNoSpacing ==
    (pc # "idle" /\ loc # NoLoc /\ loc.sparse)
    => IF loc.spacing # SpacingNone
       THEN /\ pc = "failed"
            /\ outcome = "RuntimeError: spacing must be None"
            /\ morph = None
       ELSE LET r == ComputeSparseMorph(loc.src_data, loc.subject_from,
                                        loc.subject_to)
            IN /\ pc = "built"
               /\ morph # None
               /\ morph[1].morph_mat = r.morph_mat
               /\ morph[1].vertices_to = r.vertices
               /\ morph[1].kind = "surface"
               /\ sm = NoSmooth /\ warnings = <<>> /\ morpher = <<>>

\* a sparse morph built across subjects with smooth = 0 and xhemi = True,
\* both of which stop the build when sparse=False
C18_OptionsIgnored ==
    /\ SparseBuilt
    /\ outcome = "ok"
    /\ loc.spacing = SpacingNone
    /\ loc.smooth = Some(0)
    /\ loc.xhemi
    /\ loc.subject_from # loc.subject_to

(***************************************************************************)
(* compute_source_morph followed from the source it is given: mb keeps the *)
(* declared subject_from and the source (its kind, its subject and its     *)
(* vertices) the call is made with, here with the default smooth and       *)
(* spacing=None.                                                           *)
(***************************************************************************)
SourceGiven ==
    /\ pc = "idle"
    /\ mb.pos = "idle"
    /\ \E subject_from \in Subjects \cup {NoSubject},
          src_kind \in {"stc", "spaces"},
          src_subject \in Subjects \cup {NoSubject} :
          \E lh \in SrcLists(SurfacePoints(SourceOwner(subject_from, src_subject), 1)),
             rh \in SrcLists(SurfacePoints(SourceOwner(subject_from, src_subject), 2)) :
             mb' = [pos |-> "given", subject_from |-> subject_from,
                    src_kind |-> src_kind, src_subject |-> src_subject,
                    src_data |-> <<lh, rh>>]
    /\ UNCHANGED <<pc, loc, vertices_to, h, morpher, sm, warnings, morph,
                   outcome, data_morphed>>
    /\ UNCHANGED useVars

BuildGiven ==
    /\ mb.pos = "given"
    /\ \E subject_to \in Subjects, sparse \in BOOLEAN :
          ComputeSourceMorph(mb.subject_from, mb.src_kind, mb.src_subject,
                             mb.src_data, subject_to, SpacingNone, None,
                             FALSE, FALSE, sparse)

NextSubject ==
    \/ SourceGiven
    \/ BuildGiven
    \/ HemiSkip
    \/ HemiMorph
    \/ Assemble

SpecSubject == Init /\ [][NextSubject]_vars

\* C19: if a declared subject_from and the source's own subject are both
\* known and differ, compute_source_morph fails; if subject_from is None it
\* is taken from the source; if neither is known it fails; hence every
\* morph it returns has a non-None subject_from that equals the source's
\* subject whenever that is known.
C19_SubjectResolution ==
    (mb.pos = "given" /\ pc # "idle")
    => LET declared == mb.subject_from
           own == mb.src_subject
       IN /\ (declared # NoSubject /\ own # NoSubject /\ declared # own)
                => /\ pc = "failed" /\ morph = None
                   /\ outcome = "ValueError: subject_from does not match"
          /\ (declared = NoSubject /\ own # NoSubject)
                => /\ loc.subject_from = own
                   /\ outcome \notin
                        {"TypeError",
                         "ValueError: subject_from does not match",
                         "ValueError: subject_from could not be inferred"}
          /\ (declared = NoSubject /\ own = NoSubject)
                => /\ pc = "failed" /\ morph = None
                   /\ outcome \in
                        {"TypeError",
                         "ValueError: subject_from could not be inferred"}
          /\ morph # None
                => /\ morph[1].subject_from # NoSubject
                   /\ own # NoSubject => morph[1].subject_from = own
                   /\ declared # NoSubject
                         => morph[1].subject_from = declared

\* a morph returned for a source whose subject was not declared
C19_SubjectTaken ==
    /\ mb.pos = "given"
    /\ pc = "built" /\ morph # None
    /\ mb.subject_from = NoSubject
    /\ morph[1].subject_from = mb.src_subject
    /\ mb.src_subject # NoSubject

\* the sum of every row of data is 1 (0 for a row without any entry)
RowsNormalized(data) ==
    \A r \in 1..NRows(data) : RSum(data.rows[r]) \in {ROne, RZero}

\* C20: a caller-specified smooth=N performs N-1 normalized passes followed
\* by one finishing pass that is not normalized: the rows produced by the
\* last multiplication are not divided by the vertex degree (data_sum).
C20_LastPassNotNormalized ==
    (mb.pos = "returned" /\ mb.smooth # None)
    => /\ sm.k + 1 = mb.smooth[1]
       /\ data_morphed = Some(MapsMul(CallMaps, mb.nearest, sm.data))

\* C20, as the code has it: smooth=N (1 <= N <= n_iter + 1) performs N
\* multiplications; the first N-1 are normalized inside the loop, and the
\* rows of the last one are divided by data_sum (a zero counting as 1) after
\* the loop, before the morph map is applied.
C20_LastPassNormalizedAfterLoop ==
    /\ (mb.pos = "loop" /\ mb.smooth # None /\ sm.k >= 0 /\ ~sm.done)
          => /\ sm.k + 1 < mb.smooth[1]
             /\ RowsNormalized(sm.data)
    /\ (mb.pos = "returned" /\ mb.smooth # None
        /\ mb.smooth[1] \in 1..(n_iter + 1))
          => LET by == [i \in 1..Len(sm.data_sum) |->
                           IF sm.data_sum[i] = 0 THEN 1 ELSE sm.data_sum[i]]
                 last == DivideRows(sm.data, by)
             IN /\ sm.done
                /\ sm.k + 1 = mb.smooth[1]
                /\ \A r \in 1..NRows(sm.data) :
                      RSum(sm.data.rows[r]) = RInt(sm.data_sum[r])
                /\ RowsNormalized(last)
                /\ data_morphed = Some(MapsMul(CallMaps, mb.nearest, last))

\* three passes have run and the rows of the last multiplication, with
\* degrees above 1, were divided before the morph map was applied
C20_ThreePasses ==
    /\ mb.pos = "returned"
    /\ mb.smooth = Some(3)
    /\ sm.k = 2
    /\ \E i \in 1..Len(sm.data_sum) : sm.data_sum[i] > 1
    /\ data_morphed # Some(MapsMul(CallMaps, mb.nearest, sm.data))

\* the loop of an accepted call (smooth None or >= 1) has ended
LoopEnded ==
    /\ mb.pos \in {"loop", "returned", "failed"}
    /\ ~SmoothRejected(mb.smooth)
    /\ sm.k >= 0
    /\ ~LoopRuns(sm)

\* C21: whenever the smoothing loop ends (by full coverage, by reaching the
\* requested smooth count or by hitting the 100-iteration ceiling, for any
\* smooth >= 1 or None), the buffer passed to the final normalization and to
\* the morph-map multiply has exactly N rows, one per mesh vertex, not just
\* one per active vertex.
C21_FullRowsAtLoopEnd ==
    LoopEnded => NRows(sm.data) = NRows(CallEdges)

\* smooth = 101 on a mesh the source vertices never cover: the loop ends on
\* the ceiling with one row per active vertex only
C21_ActiveRowsOnly ==
    /\ LoopEnded
    /\ mb.pos = "loop"
    /\ mb.smooth = Some(n_iter + 2)
    /\ sm.k = n_iter
    /\ NRows(sm.data) = Len(sm.idx_use)
    /\ Len(sm.idx_use) < NRows(CallEdges)

\* the number of neighbours (itself included) vertex i - 1 has among the
\* vertices that were active when the last iteration began
ActiveNeighbours(i) ==
    Cardinality({j \in 1..CallEdges.nc :
                    CallEdges.rows[i][j] # 0 /\ (j - 1) \in Range(sm.idx_use_data)})

\* C22: the final normalization never divides by zero: vertices with zero
\* active neighbours (never reached by smoothing) are treated as degree 1
\* and their rows in the smoothed result are all zero, in both the sparse
\* and the dense data path.
C22_UnreachedRowsZero ==
    mb.pos = "returned"
    => LET N == NRows(CallEdges)
           by == [i \in 1..N |-> IF ActiveNeighbours(i) = 0 THEN 1
                                 ELSE ActiveNeighbours(i)]
           smoothed == DivideRows(sm.data, by)
       IN /\ NRows(sm.data) = N
          /\ \A i \in 1..N :
                /\ sm.data_sum[i] = ActiveNeighbours(i)
                /\ ActiveNeighbours(i) = 0
                      => \A j \in 1..sm.data.nc : smoothed.rows[i][j] = RZero
          /\ data_morphed = Some(MapsMul(CallMaps, mb.nearest, smoothed))

\* a dense call has returned with a vertex that smoothing never reached
C22_DenseUnreached ==
    /\ mb.pos = "returned"
    /\ ~mb.use_sparse
    /\ outcome = "ok"
    /\ \E i \in 1..Len(sm.data_sum) : sm.data_sum[i] = 0
    /\ Len(sm.idx_use) < NRows(CallEdges)

\* an accepted call (smooth None or >= 1) has come to its end
CallEnded ==
    /\ mb.pos \in {"returned", "failed"}
    /\ ~SmoothRejected(mb.smooth)

\* C23: the smoother emits the partial-coverage warning if and only if warn
\* is set and the final active vertex count is less than N; the warning
\* reports N minus the final active count, and the smoother then continues
\* and returns a result rather than failing.
C23_WarningIffPartialCoverage ==
    CallEnded
    => LET N == NRows(CallEdges)
       IN /\ (warnings # <<>>) <=> (mb.warn /\ Len(sm.idx_use) < N)
          /\ warnings # <<>>
                => /\ warnings = <<<<N - Len(sm.idx_use), N>>>>
                   /\ mb.pos = "returned"
                   /\ outcome = "ok"
                   /\ data_morphed # None

\* smooth = 101 on dense data that never covers the mesh: the warning has
\* been emitted and the multiplication by the morph map has then failed
C23_WarnedThenFailed ==
    /\ CallEnded
    /\ mb.pos = "failed"
    /\ mb.warn
    /\ mb.smooth = Some(n_iter + 2)
    /\ warnings = <<<<NRows(CallEdges) - Len(sm.idx_use), NRows(CallEdges)>>>>
    /\ outcome = "ValueError: dimension mismatch"
    /\ data_morphed = None

\* the vertices sharing a triangle of the mesh with a vertex of S
MeshNeighbours(S) ==
    {v \in 0..(SurfacePoints(mb.subject, mb.hemi) - 1) :
        \E t \in SurfaceTris(mb.subject, mb.hemi) :
            /\ v \in {t[1], t[2], t[3]}
            /\ {t[1], t[2], t[3]} \cap S # {}}

\* C24: across smoothing iterations the active vertex set only grows: the
\* active set computed in each iteration is a superset of the previous one
\* and equals the previous set together with all its mesh neighbours; at
\* the start of every iteration the data buffer has exactly one row per
\* currently active vertex.
C24_ActiveSetGrows ==
    [][(mb.pos = "loop" /\ sm'.k = sm.k + 1)
       => /\ NRows(sm.data) = Len(sm.idx_use)
          /\ Range(sm.idx_use) \subseteq Range(sm'.idx_use)
          /\ Range(sm'.idx_use)
               = Range(sm.idx_use) \cup MeshNeighbours(Range(sm.idx_use))
          /\ StrictlyIncreasing(sm'.idx_use)
          /\ sm'.idx_use_data = sm.idx_use]_vars

\* a second iteration has run on a buffer with one row for each of the
\* vertices the first one added to the source vertices
C24_Grown ==
    /\ mb.pos = "loop"
    /\ sm.k = 1
    /\ Len(sm.idx_use_data) > 1
    /\ Range(sm.idx_use_data) \subseteq Range(sm.idx_use)
    /\ Len(sm.idx_use_data) < Len(sm.idx_use)

\* every entry of the row is >= 0 and the entries sum to exactly 1
RowAverages(row) ==
    /\ \A j \in 1..Len(row) : row[j][1] >= 0 /\ row[j][2] > 0
    /\ RSum(row) = ROne

\* C25: for every smooth in 1..100 or None, each row of the smoothed
\* N x n_source operator (before the morph-map multiply) that belongs to a
\* vertex of the final active set has non-negative entries summing to
\* exactly 1, each row having been divided by its degree exactly once per
\* pass, so constant source data stays constant on all reached vertices.
C25_RowsAverage ==
    (mb.pos \in {"loop", "returned"} /\ sm.k >= 0
     /\ (mb.smooth = None \/ mb.smooth[1] \in 1..(n_iter + 1)))
    => IF mb.pos = "loop" /\ ~sm.done
       THEN \A r \in 1..NRows(sm.data) : RowAverages(sm.data.rows[r])
       ELSE LET N == NRows(CallEdges)
                by == [i \in 1..N |-> IF sm.data_sum[i] = 0 THEN 1
                                      ELSE sm.data_sum[i]]
                smoothed == DivideRows(sm.data, by)
            IN /\ NRows(sm.data) = N
               /\ \A i \in 1..N :
                     (i - 1) \in Range(sm.idx_use)
                        => RowAverages(smoothed.rows[i])
               /\ mb.pos = "returned"
                     => data_morphed
                          = Some(MapsMul(CallMaps, mb.nearest, smoothed))

\* three averaging passes from two source vertices have returned, with
\* weights that are neither 0 nor 1
C25_AveragedThrice ==
    /\ mb.pos = "returned"
    /\ mb.smooth = Some(3)
    /\ sm.data.nc = 2
    /\ \E r \in 1..NRows(sm.data) :
          /\ (r - 1) \in Range(sm.idx_use)
          /\ \A j \in 1..2 : sm.data.rows[r][j] # RZero
          /\ sm.data_sum[r] > 1

\* the last call applied the morph, as it was returned by
\* compute_source_morph, to an estimate on the vertices of its src_data
MatchingCall ==
    /\ pc = "built" /\ stc_from # None /\ morph # None
    /\ ~stc_from[1].as_volume
    /\ morph[1].kind = "surface"
    /\ stc_from[1].stc.subject \in {NoSubject, morph[1].subject_from}
    /\ VerticesMatch(morph[1].src_data, stc_from[1].stc.vertices)

\* C26: for every surface SourceMorph returned by compute_source_morph and
\* every source estimate whose vertices equal the morph's src_data, the
\* data block selected for multiplication (all data, left-only or
\* right-only, chosen by which hemispheres of vertices_to are empty) has
\* exactly as many rows as morph_mat has columns, so the multiply never
\* fails on a dimension mismatch.
C26_SelectedRowsMatchColumns ==
    MatchingCall
    => /\ Len(SelectData(morph[1].vertices_to, stc_from[1].stc))
            = morph[1].morph_mat.nc
       /\ outcome # "ValueError: dimension mismatch"

\* a morph from both source hemispheres onto the right hemisphere only,
\* applied to an estimate on its source vertices: the rows of the right
\* hemisphere are selected, fewer than morph_mat has columns
C26_RightRowsOnly ==
    /\ MatchingCall
    /\ ~loc.sparse /\ ~loc.xhemi
    /\ ~stc_from[1].stc.vector
    /\ outcome = "ValueError: dimension mismatch"
    /\ stc_to = None
    /\ morph[1].src_data[1] # <<>> /\ morph[1].src_data[2] # <<>>
    /\ morph[1].vertices_to[1] = <<>> /\ morph[1].vertices_to[2] # <<>>
    /\ morph[1].morph_mat.nc = SumLen(morph[1].src_data)
    /\ Len(SelectData(morph[1].vertices_to, stc_from[1].stc))
         = Len(morph[1].src_data[2])

\* compute_source_morph(sparse=False) has returned a surface morph
DenseBuilt == pc = "built" /\ ~loc.sparse /\ morph # None

\* the [left, right] pair grade_to_vertices returned for the call
Resolved == GradeToVertices(loc.subject_to, loc.spacing).vertices

\* the source hemisphere that is morphed onto destination hemisphere d
SourceHemiOf(d) == IF loc.xhemi THEN 3 - d ELSE d

\* the rows for the destination vertices dest, smoothed from the source
\* vertices of hemisphere s
RowsFor(dest, s) ==
    LET e == EdgeGraph(loc.subject_from, s)
        idx_use == loc.src_data[s]
        maps == ReadMorphMap(loc.subject_from, loc.subject_to, loc.xhemi)
        last == SmoothLoop(SmoothBegin(Eye(Len(idx_use)), idx_use, loc.smooth),
                           e, NRows(e))
    IN MapsMul(maps[s], dest, FinalNorm(last))

\* C27: for every surface morph built by compute_source_morph (xhemi False
\* or True), the stored vertices_to is the [left, right] pair the vertex
\* resolver produced (the assembler does not reorder the caller's list),
\* and the rows of morph_mat are, in order, the rows for vertices_to[0]
\* followed by the rows for vertices_to[1], so row i of the morphed data
\* belongs to the i-th vertex of the concatenated vertices_to.
C27_RowsFollowVerticesTo ==
    DenseBuilt
    => LET vt == morph[1].vertices_to
           M == morph[1].morph_mat
           n_lh == Len(vt[1])
           c_lh == Len(loc.src_data[1])
       IN /\ vt = Resolved
          /\ NRows(M) = n_lh + Len(vt[2])
          /\ \A i \in 1..NRows(M) :
                LET d == IF i <= n_lh THEN 1 ELSE 2
                    r == IF d = 1 THEN i ELSE i - n_lh
                    s == SourceHemiOf(d)
                    off == IF s = 1 THEN 0 ELSE c_lh
                IN \A j \in 1..M.nc :
                      M.rows[i][j]
                        = IF j - off \in 1..Len(loc.src_data[s])
                          THEN RowsFor(<<vt[d][r]>>, s).rows[1][j - off]
                          ELSE RZero

\* an xhemi morph has been returned: the stored vertices_to is the
\* resolver's pair reversed, and the first rows of morph_mat are as many
\* as the second list of it has vertices
C27_StoredReversed ==
    /\ DenseBuilt
    /\ loc.xhemi
    /\ outcome = "ok"
    /\ morph[1].vertices_to = Reverse(Resolved)
    /\ morph[1].vertices_to # Resolved
    /\ Len(morpher) = 2
    /\ NRows(morpher[1]) = Len(morph[1].vertices_to[2])
    /\ NRows(morpher[1]) # Len(morph[1].vertices_to[1])

====
